---- MODULE Spec2Model ----
(***************************************************************************)
(* A model of gitsum (src/lib/gitsum.py): one run of _get_git_summary over *)
(* a directory tree.  Text is modelled as sequences of one-character       *)
(* strings, so that widths, padding, ordering and prefixes are computed.   *)
(***************************************************************************)
EXTENDS Integers, Sequences, FiniteSets, TLC

\* ------------------------------------------------------------------ bounds
\* largest number of filesystem entries (the scanned root included) of a tree
MaxNodes == 4
\* largest ahead / behind count a repository reports (two digits at least)
MaxCount == 10

VARIABLES
    parent,             \* filesystem: entry -> its directory (0 for the root)
    kind,               \* filesystem: entry -> "file" | "dir" | "repo" (a directory holding .git)
    name,               \* filesystem: entry -> its file name
    special,            \* entries whose name contains "Special Characters" (the root: its absolute path)
    enclosed,           \* the scanned root lies inside a repository rooted above it
    repoState,          \* repository entry -> what pygit2 reports about it
    fetch,              \* args.fetch
    list_outside_files, \* args.outside_files
    only_outside_files, \* args.only_outside_files
    pc,                 \* position of the run inside _get_git_summary
    repos,              \* the list _get_git_repos returned
    outside_files,      \* the (sorted, when listed) outside entries of _get_git_repos
    statuses,           \* the RepoStatus list being built, then sorted
    stdout,             \* lines printed
    stderr,             \* lines written to sys.stderr
    fetchLog            \* the remote.fetch() calls made: <<repository, succeeded>>

vars == <<parent, kind, name, special, enclosed, repoState, fetch, list_outside_files,
          only_outside_files, pc, repos, outside_files, statuses, stdout, stderr, fetchLog>>

env == <<parent, kind, name, special, enclosed, fetch, list_outside_files, only_outside_files>>

\* -------------------------------------------------------------------- text
\* code point of the characters that occur in file names and paths
Code(c) ==
    CASE c = "-" -> 45 [] c = "." -> 46 [] c = "/" -> 47
      [] c = "a" -> 97 [] c = "b" -> 98 [] c = "c" -> 99
      [] c = "d" -> 100 [] c = "e" -> 101 [] c = "f" -> 102
      [] c = "g" -> 103 [] c = "h" -> 104

\* Python's str < str
StrLess(s, t) ==
    \E i \in 1..(Len(s) + 1) :
        /\ \A j \in 1..(i - 1) : j <= Len(t) /\ s[j] = t[j]
        /\ \/ i = Len(s) + 1 /\ Len(t) >= i
           \/ i <= Len(s) /\ i <= Len(t) /\ Code(s[i]) < Code(t[i])

\* pathlib's Path < Path: the parts are compared one by one
PathLess(p, q) ==
    \E i \in 1..(Len(p) + 1) :
        /\ \A j \in 1..(i - 1) : j <= Len(q) /\ p[j] = q[j]
        /\ \/ i = Len(p) + 1 /\ Len(q) >= i
           \/ i <= Len(p) /\ i <= Len(q) /\ StrLess(p[i], q[i])

RECURSIVE Digits(_)
\* str(n) of a non-negative integer
Digits(n) ==
    LET d == <<"0", "1", "2", "3", "4", "5", "6", "7", "8", "9">>[(n % 10) + 1]
    IN  IF n < 10 THEN <<d>> ELSE Append(Digits(n \div 10), d)

RECURSIVE Spaces(_)
Spaces(n) == IF n <= 0 THEN <<>> ELSE <<" ">> \o Spaces(n - 1)

\* format spec :<width : left-justify, never truncate
PadLeft(s, width) == s \o Spaces(width - Len(s))

\* ------------------------------------------------------------ file system
Root == 1
Above == 0   \* the repository rooted above the scanned root, when enclosed
Nodes == DOMAIN kind

Children(d) == {n \in Nodes : parent[n] = d}

RECURSIVE Ancestors(_)
\* the entry and every directory above it, up to the scanned root
Ancestors(n) == IF n = Root THEN {Root} ELSE {n} \cup Ancestors(parent[n])

RECURSIVE PathOf(_)
\* f.relative_to(cwd).parts
PathOf(n) == IF n = Root THEN <<>> ELSE Append(PathOf(parent[n]), name[n])

RECURSIVE Join(_)
Join(parts) ==
    IF Len(parts) = 1 THEN parts[1]
    ELSE parts[1] \o <<"/">> \o Join(Tail(parts))

\* PurePath.as_posix() of a relative path
as_posix(parts) == IF parts = <<>> THEN <<".">> ELSE Join(parts)

\* "Special Characters" in str(dir)
InSpecialPath(d) == Ancestors(d) \cap special # {}

is_dir(n) == kind[n] \in {"dir", "repo"}

\* pygit2.discover_repository(str(dir)): the nearest repository at or above dir
RepoAbove(d) == {n \in Ancestors(d) : kind[n] = "repo"}
discover_repository(d) ==
    IF RepoAbove(d) # {}
    THEN CHOOSE r \in RepoAbove(d) : \A s \in RepoAbove(d) : r \in Ancestors(s)
    ELSE IF enclosed THEN Above ELSE -1

\* dir.iterdir(): the order is the file system's, here the order of the entry numbers
RECURSIVE SetToSeq(_)
SetToSeq(S) ==
    IF S = {} THEN <<>>
    ELSE LET m == CHOOSE x \in S : \A y \in S : x <= y
         IN  <<m>> \o SetToSeq(S \ {m})
iterdir(d) == SetToSeq(Children(d))

RECURSIVE flatten(_)
flatten(l) == IF l = <<>> THEN <<>> ELSE Head(l) \o flatten(Tail(l))

\* mutant: the children's outside entries are kept and the directory is not reported
collapse_keeps_children(d, rs, outs) == [repos |-> rs, outside |-> outs]

\* mutant: the directory is reported on top of its children's outside entries
collapse_adds_dir(d, rs, outs) ==
    IF Len(rs) # 0 THEN [repos |-> rs, outside |-> outs]
    ELSE [repos |-> rs, outside |-> outs \o <<d>>]

\* lines 59-62: a directory with no repository below it is one outside entry
collapse(d, rs, outs) ==
    IF Len(rs) # 0 THEN [repos |-> rs, outside |-> outs]
    ELSE [repos |-> rs, outside |-> <<d>>]

\* mutant: a repository's directory is reported as an outside entry too
found_repo_also_outside(d) == [repos |-> <<discover_repository(d)>>, outside |-> <<d>>]

\* lines 52-54: the repository found at or above the directory
found_repo(d) == [repos |-> <<discover_repository(d)>>, outside |-> <<>>]

RECURSIVE do_get_git_repos(_)
do_get_git_repos(d) ==
    IF InSpecialPath(d) THEN [repos |-> <<>>, outside |-> <<>>]
    ELSE IF ~is_dir(d) THEN [repos |-> <<>>, outside |-> <<d>>]
    ELSE IF discover_repository(d) # -1 THEN found_repo(d)
    ELSE LET subdirs == iterdir(d)
             results == [i \in 1..Len(subdirs) |-> do_get_git_repos(subdirs[i])]
         IN  collapse(d,
                      flatten([i \in 1..Len(subdirs) |-> results[i].repos]),
                      flatten([i \in 1..Len(subdirs) |-> results[i].outside]))

\* mutant: the outside entries are left in the order of discovery
sort_paths_unsorted(s) == s

RECURSIVE sort_paths(_)
\* list.sort() of Path objects (an insertion sort: stable, as Python's is)
sort_paths(s) ==
    IF s = <<>> THEN <<>>
    ELSE LET rest == sort_paths(SubSeq(s, 1, Len(s) - 1))
             x == s[Len(s)]
             k == Cardinality({i \in 1..Len(rest) : ~PathLess(PathOf(x), PathOf(rest[i]))})
         IN  SubSeq(rest, 1, k) \o <<x>> \o SubSeq(rest, k + 1, Len(rest))

OutsidePrefix == <<"O", "U", "T", "S", "I", "D", "E", ":", " ">>

\* lines 73-75
outside_line(f) ==
    LET relative_path == as_posix(PathOf(f))
        path_str == IF is_dir(f) THEN relative_path \o <<"/">> ELSE relative_path
    IN  OutsidePrefix \o path_str

\* ------------------------------------------------------------- RepoStatus
\* mutant: the commits behind are forgotten
is_up_to_date_ignores_behind(s) ==
    ~s.has_changes /\ (~s.branch_has_upstream \/ s.local_ahead = 0)

\* lines 24-29
is_up_to_date(s) ==
    ~s.has_changes /\ (~s.branch_has_upstream \/ (s.local_ahead = 0 /\ s.local_behind = 0))

\* line 32
to_string(s, name_width, head_width) ==
    (IF ~is_up_to_date(s) THEN <<"!">> ELSE <<" ">>)
    \o <<" ", " ">> \o PadLeft(s.name, name_width)
    \o <<" ", " ">>
    \o (IF s.is_local THEN <<"[", "L", "R", "]">>
        ELSE IF ~s.branch_has_upstream THEN <<"[", "L", "B", "]">>
        ELSE <<" ", " ", " ", " ">>)
    \o <<" ", " ">> \o PadLeft(s.head, head_width)
    \o <<" ">>
    \o (IF s.has_changes THEN <<" ", "*">> ELSE <<" ", " ">>)
    \o (IF s.local_ahead > 0 THEN <<" ", ">">> \o Digits(s.local_ahead) ELSE <<" ", " ", " ">>)
    \o (IF s.local_behind > 0 THEN <<" ", "<">> \o Digits(s.local_behind) ELSE <<" ", " ", " ">>)

\* lines 79-84, for a repository below the working directory
get_repo_name(r) == as_posix(PathOf(r))

NoCommits == <<"(", "n", "o", " ", "c", "o", "m", "m", "i", "t", "s", ")">>

\* mutant: ahead_behind is asked whatever HEAD is
get_status_always_counts(st, nm) ==
    [name |-> nm,
     head |-> IF st.head = "unborn" THEN NoCommits
              ELSE IF st.head = "detached" THEN <<"(">> \o SubSeq(st.hex, 1, 6) \o <<")">>
              ELSE st.shorthand,
     is_local |-> ~(st.remotes > 0),
     has_changes |-> st.status_entries > 0,
     branch_has_upstream |-> st.head = "branch" /\ st.upstream,
     local_ahead |-> st.ahead,
     local_behind |-> st.behind]

\* lines 96-114, given what the repository reports once any fetch is over
get_status(st, nm) ==
    LET on_branch == st.head = "branch"
        branch_name == IF st.head = "unborn" THEN NoCommits
                       ELSE IF st.head = "detached"
                            THEN <<"(">> \o SubSeq(st.hex, 1, 6) \o <<")">>
                            ELSE st.shorthand
        branch_has_upstream == on_branch /\ st.upstream
    IN  [name |-> nm,
         head |-> branch_name,
         is_local |-> ~(st.remotes > 0),
         has_changes |-> st.status_entries > 0,
         branch_has_upstream |-> branch_has_upstream,
         local_ahead |-> IF branch_has_upstream THEN st.ahead ELSE 0,
         local_behind |-> IF branch_has_upstream THEN st.behind ELSE 0]

\* lines 104-110: the fetch is attempted only on a branch with an upstream
needs_fetch(st) == st.head = "branch" /\ st.upstream /\ fetch

\* mutant: the statuses are left in the order of discovery
sort_statuses_unsorted(s) == s

RECURSIVE sort_statuses(_)
\* statuses.sort(key=lambda s: s.name)
sort_statuses(s) ==
    IF s = <<>> THEN <<>>
    ELSE LET rest == sort_statuses(SubSeq(s, 1, Len(s) - 1))
             x == s[Len(s)]
             k == Cardinality({i \in 1..Len(rest) : ~StrLess(x.name, rest[i].name)})
         IN  SubSeq(rest, 1, k) \o <<x>> \o SubSeq(rest, k + 1, Len(rest))

RECURSIVE SeqMax(_)
\* max() of a non-empty list
SeqMax(s) ==
    IF Len(s) = 1 THEN s[1]
    ELSE LET m == SeqMax(Tail(s)) IN IF s[1] >= m THEN s[1] ELSE m

\* line 121
count_line(n) ==
    <<"F", "o", "u", "n", "d", " ">> \o Digits(n)
    \o <<" ", "G", "i", "t", " ", "r", "e", "p", "o", "s", "i", "t", "o", "r", "i", "e", "s", ".">>

\* lines 39, 92
warn_line(repo_name) ==
    <<"W", "A", "R", "N", ":", " ", "F", "a", "i", "l", "e", "d", " ", "t", "o", " ",
      "f", "e", "t", "c", "h", " ", "r", "e", "p", "o", " ", "'">> \o repo_name \o <<"'">>

\* ------------------------------------------------------------------ inputs
\* file names, in ascending order as strings; "a-" sorts between "a" and "a/"
NamePool == << <<"a">>, <<"a", "-">>, <<"b">>, <<"c">>, <<"d">>, <<"e">>, <<"f">>, <<"g">> >>

MainBranch == <<"m", "a", "i", "n">>
HeadHex == <<"3", "f", "a", "9", "c", "1", "0", "b", "7", "e">>  \* a commit id, abridged

CountValues == {0, 1, MaxCount}

\* a repository on a branch without upstream, one remote, clean
PlainRepo ==
    [head |-> "branch", shorthand |-> MainBranch, hex |-> HeadHex, upstream |-> FALSE,
     ahead |-> 0, behind |-> 0, remotes |-> 1, status_entries |-> 0]

\* what a repository can report: ahead / behind are those of the local refs and
\* mean something only when the branch has an upstream, which is remote-tracking
RepoStates ==
    {st \in [head : {"unborn", "detached", "branch"}, shorthand : {MainBranch},
             hex : {HeadHex}, upstream : BOOLEAN, ahead : CountValues,
             behind : CountValues, remotes : {0, 1}, status_entries : {0, 2}] :
        /\ ~st.upstream => st.ahead = 0 /\ st.behind = 0
        /\ st.upstream => st.remotes > 0
        /\ st.head = "unborn" => ~st.upstream
        /\ st.head = "detached" /\ st.upstream => st.ahead = 1 /\ st.behind = MaxCount}

\* trees of up to MaxNodes entries, every shape and kind; names follow the entry
\* numbers upwards or downwards, so that iterdir's order is or is not the sorted one
InitTree ==
    \E n \in 1..MaxNodes :
    \E par \in [1..n -> 0..(n - 1)] :
    \E kd \in [1..n -> {"file", "dir", "repo"}] :
    \E sp \in SUBSET (1..n) :
    \E up \in BOOLEAN :
        /\ \A i \in 1..n : par[i] < i /\ (par[i] = 0 <=> i = 1)
        /\ kd[1] # "file"
        /\ \A i \in 2..n : kd[par[i]] # "file"
        /\ Cardinality(sp) <= 1
        /\ parent = par
        /\ kind = kd
        /\ name = [i \in 1..n |-> IF i = 1 THEN <<>>
                                  ELSE IF up THEN NamePool[i - 1] ELSE NamePool[n + 1 - i]]
        /\ special = sp
        /\ enclosed \in BOOLEAN
        /\ repoState = [r \in {i \in 1..n : kd[i] = "repo"} |-> PlainRepo]
        /\ fetch = FALSE
        /\ list_outside_files \in BOOLEAN
        /\ only_outside_files \in BOOLEAN
        \* either the names and flags vary, or the skipped and enclosed paths do
        /\ \/ sp = {} /\ ~enclosed
           \/ up /\ ~list_outside_files /\ ~only_outside_files

\* a directory and a sibling entry whose name starts with the directory's, or
\* not: the tree where the order of paths and the order of their text may differ
InitSiblings ==
    \E kd \in [1..5 -> {"file", "dir", "repo"}] :
    \E i, j \in 1..3 :
        /\ kd[1] = "dir" /\ kd[2] # "file"
        /\ i # j
        /\ parent = <<0, 1, 2, 2, 1>>
        /\ kind = kd
        /\ name = << <<>>, NamePool[i], NamePool[3], NamePool[4], NamePool[j] >>
        /\ special = {}
        /\ enclosed = FALSE
        /\ repoState = [r \in {n \in 1..5 : kd[n] = "repo"} |-> PlainRepo]
        /\ fetch = FALSE
        /\ list_outside_files \in BOOLEAN
        /\ only_outside_files \in BOOLEAN

\* a directory holding two repositories, in every state a repository can be in
InitStatus ==
    /\ parent = <<0, 1, 1>>
    /\ kind = <<"dir", "repo", "repo">>
    /\ name = << <<>>, NamePool[3], NamePool[1] >>
    /\ special = {}
    /\ enclosed = FALSE
    /\ repoState \in [{2, 3} -> RepoStates]
    /\ fetch \in BOOLEAN
    /\ list_outside_files \in BOOLEAN
    /\ only_outside_files \in BOOLEAN

Init ==
    /\ InitTree \/ InitSiblings \/ InitStatus
    /\ pc = "start"
    /\ repos = <<>>
    /\ outside_files = <<>>
    /\ statuses = <<>>
    /\ stdout = <<>>
    /\ stderr = <<>>
    /\ fetchLog = <<>>

\* ----------------------------------------------------------------- actions
\* lines 65-76 and 119-120: discovery, and the OUTSIDE lines when asked for
GetGitRepos ==
    /\ pc = "start"
    /\ LET res == do_get_git_repos(Root)
           listed == list_outside_files \/ only_outside_files
           outs == IF listed THEN sort_paths(res.outside) ELSE res.outside
       IN  /\ repos' = res.repos
           /\ outside_files' = outs
           /\ stdout' = IF listed THEN stdout \o [i \in 1..Len(outs) |-> outside_line(outs[i])]
                        ELSE stdout
    /\ pc' = IF only_outside_files THEN "done" ELSE "count"
    /\ UNCHANGED <<env, repoState, statuses, stderr, fetchLog>>

\* line 121
PrintCount ==
    /\ pc = "count"
    /\ stdout' = Append(stdout, count_line(Len(repos)))
    /\ pc' = "status"
    /\ UNCHANGED <<env, repoState, repos, outside_files, statuses, stderr, fetchLog>>

NextRepo == repos[Len(statuses) + 1]

\* line 122, one element: a repository that needs no fetch
GetStatus ==
    /\ pc = "status"
    /\ Len(statuses) < Len(repos)
    /\ NextRepo # Above
    /\ ~needs_fetch(repoState[NextRepo])
    /\ statuses' = Append(statuses, get_status(repoState[NextRepo], get_repo_name(NextRepo)))
    /\ UNCHANGED <<env, repoState, pc, repos, outside_files, stdout, stderr, fetchLog>>

\* line 122, one element: the fetch succeeds and moves the upstream ref
GetStatusFetchOk ==
    /\ pc = "status"
    /\ Len(statuses) < Len(repos)
    /\ NextRepo # Above
    /\ needs_fetch(repoState[NextRepo])
    /\ \E b \in CountValues :
          repoState' = [repoState EXCEPT ![NextRepo].behind = b]
    /\ fetchLog' = Append(fetchLog, <<NextRepo, TRUE>>)
    /\ statuses' = Append(statuses, get_status(repoState'[NextRepo], get_repo_name(NextRepo)))
    /\ UNCHANGED <<env, pc, repos, outside_files, stdout, stderr>>

\* mutant: the GitError of a failed fetch is not caught
FetchFailAborts ==
    /\ pc = "status"
    /\ Len(statuses) < Len(repos)
    /\ NextRepo # Above
    /\ needs_fetch(repoState[NextRepo])
    /\ fetchLog' = Append(fetchLog, <<NextRepo, FALSE>>)
    /\ pc' = "crashed"
    /\ UNCHANGED <<env, repoState, repos, outside_files, statuses, stdout, stderr>>

\* line 122, one element: the fetch raises GitError, which _try_fetch reports
GetStatusFetchFail ==
    /\ pc = "status"
    /\ Len(statuses) < Len(repos)
    /\ NextRepo # Above
    /\ needs_fetch(repoState[NextRepo])
    /\ fetchLog' = Append(fetchLog, <<NextRepo, FALSE>>)
    /\ stderr' = Append(stderr, warn_line(get_repo_name(NextRepo)))
    /\ statuses' = Append(statuses, get_status(repoState[NextRepo], get_repo_name(NextRepo)))
    /\ UNCHANGED <<env, repoState, pc, repos, outside_files, stdout>>

\* lines 79-84: relative_to raises ValueError for a repository rooted above cwd
RepoNameError ==
    /\ pc = "status"
    /\ Len(statuses) < Len(repos)
    /\ NextRepo = Above
    /\ pc' = "crashed"
    /\ UNCHANGED <<env, repoState, repos, outside_files, statuses, stdout, stderr, fetchLog>>

\* lines 123-124: max() of an empty list raises ValueError
MaxValueError ==
    /\ pc = "status"
    /\ Len(statuses) = Len(repos)
    /\ statuses = <<>>
    /\ pc' = "crashed"
    /\ UNCHANGED <<env, repoState, repos, outside_files, statuses, stdout, stderr, fetchLog>>

\* lines 123-126
PrintTable ==
    /\ pc = "status"
    /\ Len(statuses) = Len(repos)
    /\ statuses # <<>>
    /\ LET name_width == SeqMax([i \in 1..Len(statuses) |-> Len(statuses[i].name)])
           head_width == SeqMax([i \in 1..Len(statuses) |-> Len(statuses[i].head)])
           sorted == sort_statuses(statuses)
       IN  /\ statuses' = sorted
           /\ stdout' = stdout \o [i \in 1..Len(sorted) |->
                                      to_string(sorted[i], name_width, head_width)]
    /\ pc' = "done"
    /\ UNCHANGED <<env, repoState, repos, outside_files, stderr, fetchLog>>

Next ==
    \/ GetGitRepos
    \/ PrintCount
    \/ GetStatus
    \/ GetStatusFetchOk
    \/ GetStatusFetchFail
    \/ RepoNameError
    \/ MaxValueError
    \/ PrintTable

Spec == Init /\ [][Next]_vars

\* ------------------------------------------------------------------ claims
Discovered == pc # "start"
Finished == pc \in {"done", "crashed"}
TablePrinted == pc = "done" /\ ~only_outside_files

IsOutsideLine(l) ==
    Len(l) > Len(OutsidePrefix) /\ SubSeq(l, 1, Len(OutsidePrefix)) = OutsidePrefix

\* the relative path printed on an OUTSIDE line, without a directory's final "/"
OutsideText(l) ==
    LET text == SubSeq(l, Len(OutsidePrefix) + 1, Len(l))
    IN  IF text[Len(text)] = "/" THEN SubSeq(text, 1, Len(text) - 1) ELSE text

OutsideLineCount == Cardinality({i \in 1..Len(stdout) : IsOutsideLine(stdout[i])})

\* the lines printed after the count line
TableLines == SubSeq(stdout, OutsideLineCount + 2, Len(stdout))

NoRepoInTree == \A n \in Nodes : kind[n] # "repo"

Leaves == {n \in Nodes : Children(n) = {}}

InReturnedRepo(n) ==
    \E i \in 1..Len(repos) : repos[i] = Above \/ repos[i] \in Ancestors(n)

FailedFetches == SelectSeq(fetchLog, LAMBDA e : ~e[2])

StatusOf(r) == {i \in 1..Len(statuses) : statuses[i].name = get_repo_name(r)}

\* C1: a run over a tree with no repository, without only-outside-files, ends
\* normally and its last and only non-OUTSIDE line is 'Found 0 Git repositories.'
C1_EmptyRunCompletes ==
    (Finished /\ ~only_outside_files /\ repos = <<>>) =>
        /\ pc = "done"
        /\ Len(stdout) = OutsideLineCount + 1
        /\ stdout[Len(stdout)] = count_line(0)

\* C2: all the status lines of a printed table have the same length
C2_LinesSameLength ==
    TablePrinted =>
        \A i, j \in 1..Len(TableLines) : Len(TableLines[i]) = Len(TableLines[j])

\* C3 (as stated): over a tree holding no repository, discovery returns no
\* repository and the root as the only outside entry
C3_ZeroRepoTreeYieldsRoot ==
    (Discovered /\ NoRepoInTree) => repos = <<>> /\ outside_files = <<Root>>

\* C3 (amended): the same, when the root's path does not contain "Special
\* Characters" and the root does not lie inside a repository rooted above it
C3_ZeroRepoTreeYieldsRootUnlessSkipped ==
    (Discovered /\ NoRepoInTree /\ Root \notin special /\ ~enclosed) =>
        repos = <<>> /\ outside_files = <<Root>>

C3_Witness ==
    /\ Discovered /\ NoRepoInTree /\ Root \notin special /\ ~enclosed
    /\ \E n \in Nodes : n # Root /\ parent[n] # Root /\ kind[n] = "file"
    /\ outside_files = <<Root>>

\* C4: when every leaf of the tree lies inside a repository that discovery
\* returned, discovery returned no outside entry
C4_AllLeavesInReposNoOutside ==
    (Discovered /\ \A n \in Leaves : InReturnedRepo(n)) => outside_files = <<>>

C4_Witness ==
    /\ Discovered /\ \A n \in Leaves : InReturnedRepo(n)
    /\ ~enclosed /\ kind[Root] = "dir" /\ Len(repos) >= 2
    /\ \E n \in Nodes : kind[n] = "file"
    /\ outside_files = <<>>

\* C5: is_up_to_date is true exactly when there are no changes and either no
\* upstream or no commit ahead and none behind, and a line starts with '!'
\* exactly when the record is not up to date, with a space otherwise
C5_UpToDateAndMarker ==
    /\ \A i \in 1..Len(statuses) : \A hc \in BOOLEAN, up \in BOOLEAN :
          LET s == [statuses[i] EXCEPT !.has_changes = hc, !.branch_has_upstream = up]
              expected == ~hc /\ (~up \/ (s.local_ahead = 0 /\ s.local_behind = 0))
          IN  /\ is_up_to_date(s) <=> expected
              /\ to_string(s, 0, 0)[1] = IF expected THEN " " ELSE "!"
    /\ TablePrinted =>
          \A i \in 1..Len(TableLines) :
              TableLines[i][1] =
                  IF /\ ~statuses[i].has_changes
                     /\ \/ ~statuses[i].branch_has_upstream
                        \/ statuses[i].local_ahead = 0 /\ statuses[i].local_behind = 0
                  THEN " " ELSE "!"

C5_Witness ==
    /\ TablePrinted /\ Len(TableLines) = 2
    /\ TableLines[1][1] = " " /\ TableLines[2][1] = "!"
    /\ statuses[1].branch_has_upstream /\ statuses[2].branch_has_upstream
    /\ ~statuses[2].has_changes /\ statuses[2].local_ahead = 0

\* C6: a RepoStatus without upstream has no commit ahead and none behind, and
\* an unborn or detached HEAD yields a RepoStatus without upstream
C6_NoUpstreamNoCounts ==
    /\ \A i \in 1..Len(statuses) :
          ~statuses[i].branch_has_upstream =>
              statuses[i].local_ahead = 0 /\ statuses[i].local_behind = 0
    /\ \A k \in 1..Len(repos) :
          (repos[k] # Above /\ repoState[repos[k]].head \in {"unborn", "detached"}) =>
              \A i \in StatusOf(repos[k]) :
                  /\ ~statuses[i].branch_has_upstream
                  /\ statuses[i].local_ahead = 0 /\ statuses[i].local_behind = 0

C6_Witness ==
    /\ fetch
    /\ \E k \in 1..Len(repos) :
          /\ repos[k] # Above
          /\ repoState[repos[k]].head = "detached"
          /\ repoState[repos[k]].upstream /\ repoState[repos[k]].behind > 0
          /\ StatusOf(repos[k]) # {}
    /\ \E k \in 1..Len(repos) :
          /\ repos[k] # Above
          /\ repoState[repos[k]].head = "unborn"
          /\ StatusOf(repos[k]) # {}

\* C7: a failed fetch is reported on standard error and nothing more: the run
\* goes on, the repository's status carries the counts of its local refs, and
\* the table has one line for each discovered repository
C7_FetchFailureDoesNotAbort ==
    /\ stderr = [i \in 1..Len(FailedFetches) |-> warn_line(get_repo_name(FailedFetches[i][1]))]
    /\ \A i \in 1..Len(FailedFetches) :
          LET r == FailedFetches[i][1]
          IN  /\ StatusOf(r) # {}
              /\ \A k \in StatusOf(r) :
                    /\ statuses[k].branch_has_upstream
                    /\ statuses[k].local_ahead = repoState[r].ahead
                    /\ statuses[k].local_behind = repoState[r].behind
    /\ FailedFetches # <<>> =>
          /\ pc # "crashed"
          /\ pc = "done" \/ ENABLED Next
    /\ (fetch /\ TablePrinted) => Len(TableLines) = Len(repos)

C7_Witness ==
    /\ pc = "done"
    /\ Len(fetchLog) = 2 /\ ~fetchLog[1][2] /\ fetchLog[2][2]
    /\ Len(stderr) = 1 /\ Len(TableLines) = 2
    /\ \E k \in StatusOf(fetchLog[1][1]) : statuses[k].local_behind = MaxCount

\* C8 (as stated): with only-outside-files, standard output holds OUTSIDE lines
\* only, in the lexicographic order of the relative paths they print, and no status is computed
\* and no fetch attempted
C8_OnlyOutsideSortedAsText ==
    only_outside_files =>
        /\ \A i \in 1..Len(stdout) : IsOutsideLine(stdout[i])
        /\ \A i, j \in 1..Len(stdout) :
              i < j => ~StrLess(OutsideText(stdout[j]), OutsideText(stdout[i]))
        /\ statuses = <<>> /\ fetchLog = <<>> /\ stderr = <<>>
        /\ pc \in {"start", "done"}

\* C8 (amended): the same, the OUTSIDE lines being in the order of their paths
\* compared part by part (pathlib's order), not of their text
C8_OnlyOutsideSortedAsPaths ==
    only_outside_files =>
        /\ \A i \in 1..Len(stdout) : IsOutsideLine(stdout[i])
        /\ Discovered =>
              /\ stdout = [i \in 1..Len(outside_files) |-> outside_line(outside_files[i])]
              /\ \A i, j \in 1..Len(outside_files) :
                    i < j => PathLess(PathOf(outside_files[i]), PathOf(outside_files[j]))
        /\ statuses = <<>> /\ fetchLog = <<>> /\ stderr = <<>>
        /\ pc \in {"start", "done"}

C8_Witness ==
    /\ only_outside_files /\ pc = "done"
    /\ Len(stdout) >= 2 /\ Len(repos) >= 1
    /\ outside_files[2] < outside_files[1]

C10_DiscoveryNonOverlapping ==
    Discovered =>
        /\ \A i, j \in 1..Len(outside_files) :
              i # j => outside_files[i] \notin Ancestors(outside_files[j])
        /\ \A i \in 1..Len(outside_files) : \A r \in 1..Len(repos) :
              /\ repos[r] # Above
              /\ repos[r] \notin Ancestors(outside_files[i])
              /\ outside_files[i] \notin Ancestors(repos[r])
        /\ \A i, j \in 1..Len(repos) : i # j => repos[i] # repos[j]
        /\ \A i, j \in 1..Len(repos) :
              (i # j /\ repos[i] # Above /\ repos[j] # Above) => repos[i] \notin Ancestors(repos[j])

C10_Witness ==
    /\ Discovered /\ Len(repos) >= 1 /\ Len(outside_files) >= 1
    /\ \E n \in Nodes : kind[n] = "repo" /\ \E m \in Ancestors(n) \ {n} : kind[m] = "repo"
====
